---- MODULE Spec2Model ----
(***************************************************************************)
(* Model of FileCollector (collect_files.py): the per-node collection     *)
(* loop of collect, the sequence expansion and the 4-thread pool of       *)
(* copy_sequence_parallel, the copy primitive copy_file, and the          *)
(* path-rewriting post-pass update_node_path.                             *)
(*                                                                         *)
(* Strings are sequences of one-character strings, so that basename,      *)
(* splitext, the padding regular expressions, zfill and re.sub are        *)
(* computed character by character as the Python code computes them.      *)
(***************************************************************************)
EXTENDS Integers, Sequences, FiniteSets, TLC

(***************************************************************************)
(* Bounds of the model.                                                    *)
(***************************************************************************)
\* number of nodes returned by nuke.allNodes() in the collection runs
NumRefs == 2
\* longest basename template enumerated for the expansion runs
MaxLen == 4
\* largest frame number enumerated for the expansion runs
MaxFrame == 11

(***************************************************************************)
(* Character-level string helpers (Python str / os.path on POSIX).        *)
(***************************************************************************)
Digits == <<"0", "1", "2", "3", "4", "5", "6", "7", "8", "9">>

IsDigit(c) == \E k \in 1..10 : Digits[k] = c

DigitVal(c) == (CHOOSE k \in 1..10 : Digits[k] = c) - 1

\* str.lower() on the letters that occur in the model's file names
Lower(c) ==
  CASE c = "M" -> "m"
    [] c = "O" -> "o"
    [] c = "V" -> "v"
    [] c = "X" -> "x"
    [] OTHER -> c

LowerStr(s) == [k \in 1..Len(s) |-> Lower(s[k])]

\* s[a:b] of Python with 0-based a (inclusive) and b (exclusive)
Slice(s, a, b) == SubSeq(s, a + 1, b)

\* s.rfind(c): 0-based index of the last occurrence of c, or -1
RFind(s, c) ==
  IF \E k \in 1..Len(s) : s[k] = c
    THEN (CHOOSE k \in 1..Len(s) : s[k] = c /\ \A m \in (k+1)..Len(s) : s[m] # c) - 1
    ELSE -1

\* s.rstrip(c)
RECURSIVE RStrip(_, _)
RStrip(s, c) ==
  IF Len(s) > 0 /\ s[Len(s)] = c THEN RStrip(SubSeq(s, 1, Len(s) - 1), c) ELSE s

\* decimal digits of a natural number
RECURSIVE NatStr(_)
NatStr(n) == IF n < 10 THEN <<Digits[n + 1]>> ELSE NatStr(n \div 10) \o <<Digits[(n % 10) + 1]>>

\* str(n) for an int
IntStr(n) == IF n < 0 THEN <<"-">> \o NatStr(0 - n) ELSE NatStr(n)

\* int(s) for a string of decimal digits
RECURSIVE ParseInt(_)
ParseInt(s) ==
  IF Len(s) = 0 THEN 0
  ELSE 10 * ParseInt(SubSeq(s, 1, Len(s) - 1)) + DigitVal(s[Len(s)])

Zeros(n) == [k \in 1..n |-> "0"]

\* str.zfill(width): zeros go after a leading sign
ZFill(s, width) ==
  IF Len(s) >= width THEN s
  ELSE IF Len(s) > 0 /\ s[1] \in {"-", "+"}
         THEN <<s[1]>> \o Zeros(width - Len(s)) \o Tail(s)
         ELSE Zeros(width - Len(s)) \o s

(***************************************************************************)
(* os.path (posixpath).                                                    *)
(***************************************************************************)
\* os.path.basename(p)
Basename(p) == Slice(p, RFind(p, "/") + 1, Len(p))

\* os.path.dirname(p)
Dirname(p) ==
  LET head == Slice(p, 0, RFind(p, "/") + 1)
  IN IF Len(head) > 0 /\ (\E k \in 1..Len(head) : head[k] # "/")
       THEN RStrip(head, "/")
       ELSE head

\* os.path.join(a, b)
Join(a, b) ==
  IF Len(b) > 0 /\ b[1] = "/" THEN b
  ELSE IF Len(a) = 0 \/ a[Len(a)] = "/" THEN a \o b
  ELSE a \o <<"/">> \o b

\* os.path.splitext(p)[-1]: the extension with its dot, "" when the last dot
\* only leads the file name
SplitExt(p) ==
  LET sepIndex == RFind(p, "/")
      dotIndex == RFind(p, ".")
  IN IF dotIndex > sepIndex
        /\ \E k \in (sepIndex + 1)..(dotIndex - 1) : p[k + 1] # "."
       THEN Slice(p, dotIndex, Len(p))
       ELSE <<>>

\* os.path.splitext(file_path)[-1][1:].lower()
Ext(p) == LowerStr(Slice(SplitExt(p), 1, Len(SplitExt(p))))

(***************************************************************************)
(* The regular expressions of copy_sequence_parallel.                     *)
(***************************************************************************)
\* number of consecutive characters of s from 1-based position p on that satisfy
\* the test (a greedy run)
RECURSIVE DigitRun(_, _)
DigitRun(s, p) == IF p <= Len(s) /\ IsDigit(s[p]) THEN 1 + DigitRun(s, p + 1) ELSE 0

RECURSIVE HashRun(_, _)
HashRun(s, p) == IF p <= Len(s) /\ s[p] = "#" THEN 1 + HashRun(s, p + 1) ELSE 0

\* length of the match of r'%0?\d*d' that starts at position p, 0 when none
PercentMatchAt(s, p) ==
  IF p <= Len(s) /\ s[p] = "%"
    THEN LET n == DigitRun(s, p + 1)
         IN IF p + 1 + n <= Len(s) /\ s[p + 1 + n] = "d" THEN n + 2 ELSE 0
    ELSE 0

\* length of the match of r'#+' that starts at position p, 0 when none
HashMatchAt(s, p) == HashRun(s, p)

\* length of the match of r'(%0?\d*d|#+)' that starts at position p, 0 when none
TokenMatchAt(s, p) ==
  IF PercentMatchAt(s, p) > 0 THEN PercentMatchAt(s, p) ELSE HashMatchAt(s, p)

\* re.search(r'(%0?\d*d|#+)', basename): position of the leftmost match, 0 when
\* there is none
SearchPos(s) ==
  IF \E p \in 1..Len(s) : TokenMatchAt(s, p) > 0
    THEN CHOOSE p \in 1..Len(s) :
           TokenMatchAt(s, p) > 0 /\ \A q \in 1..(p - 1) : TokenMatchAt(s, q) = 0
    ELSE 0

\* match.group(1)
PadToken(s) == SubSeq(s, SearchPos(s), SearchPos(s) + TokenMatchAt(s, SearchPos(s)) - 1)

\* re.search(r'\d+', pad_token).group(), "" when there is no digit
FirstDigits(tok) ==
  IF \E p \in 1..Len(tok) : IsDigit(tok[p])
    THEN LET p == CHOOSE q \in 1..Len(tok) :
                    IsDigit(tok[q]) /\ \A r \in 1..(q - 1) : ~IsDigit(tok[r])
         IN SubSeq(tok, p, p + DigitRun(tok, p) - 1)
    ELSE <<>>

\* as PadLen, without the else 1 of line 87
PadLenNoDefault(tok) ==
  IF tok[1] = "%"
    THEN IF FirstDigits(tok) # <<>> THEN ParseInt(FirstDigits(tok)) ELSE 0
    ELSE Len(tok)

\* pad_len of the token
PadLen(tok) ==
  IF tok[1] = "%"
    THEN IF FirstDigits(tok) # <<>> THEN ParseInt(FirstDigits(tok)) ELSE 1
    ELSE Len(tok)

\* pattern chosen for the substitution: "percent" is r'%0?\d*d', "hash" is r'#+'
PadPattern(tok) == IF tok[1] = "%" THEN "percent" ELSE "hash"

PatternMatchAt(pattern, s, p) ==
  IF pattern = "percent" THEN PercentMatchAt(s, p) ELSE HashMatchAt(s, p)

\* re.sub(pattern, repl, s): every non-overlapping match, left to right
RECURSIVE ReSubFrom(_, _, _, _)
ReSubFrom(pattern, repl, s, p) ==
  IF p > Len(s) THEN <<>>
  ELSE IF PatternMatchAt(pattern, s, p) > 0
         THEN repl \o ReSubFrom(pattern, repl, s, p + PatternMatchAt(pattern, s, p))
         ELSE <<s[p]>> \o ReSubFrom(pattern, repl, s, p + 1)

ReSub(pattern, repl, s) == ReSubFrom(pattern, repl, s, 1)

(***************************************************************************)
(* copy_sequence_parallel, lines 69-99: the job list of a sequence.       *)
(***************************************************************************)
\* file_name of one frame
FrameFileName(basename, frame) ==
  LET tok == PadToken(basename)
  IN ReSub(PadPattern(tok), ZFill(IntStr(frame), PadLen(tok)), basename)

\* new_dir = os.path.join(output_dir, dirname)
NewDir(file_path, output_dir) == Join(output_dir, Basename(Dirname(file_path)))

\* as BuildTasks, with range(frame_start, frame_end): the last frame is left out
BuildTasksExclusive(file_path, output_dir, frame_start, frame_end) ==
  LET basename == Basename(file_path)
      dirpath == Dirname(file_path)
  IN IF SearchPos(basename) = 0 THEN <<>>
     ELSE [k \in 1..(IF frame_end > frame_start THEN frame_end - frame_start ELSE 0) |->
             LET file_name == FrameFileName(basename, frame_start + k - 1)
             IN [src |-> Join(dirpath, file_name),
                 dst |-> Join(NewDir(file_path, output_dir), file_name),
                 name |-> file_name]]

\* as BuildTasks, with dst = os.path.join(new_dir, basename): the template,
\* not the frame's file name
BuildTasksDstTemplate(file_path, output_dir, frame_start, frame_end) ==
  LET basename == Basename(file_path)
      dirpath == Dirname(file_path)
  IN IF SearchPos(basename) = 0 THEN <<>>
     ELSE [k \in 1..(IF frame_end >= frame_start THEN frame_end - frame_start + 1 ELSE 0) |->
             LET file_name == FrameFileName(basename, frame_start + k - 1)
             IN [src |-> Join(dirpath, file_name),
                 dst |-> Join(NewDir(file_path, output_dir), basename),
                 name |-> file_name]]

\* the list tasks, empty when the basename has no padding token (early return)
BuildTasks(file_path, output_dir, frame_start, frame_end) ==
  LET basename == Basename(file_path)
      dirpath == Dirname(file_path)
  IN IF SearchPos(basename) = 0 THEN <<>>
     ELSE [k \in 1..(IF frame_end >= frame_start THEN frame_end - frame_start + 1 ELSE 0) |->
             LET file_name == FrameFileName(basename, frame_start + k - 1)
             IN [src |-> Join(dirpath, file_name),
                 dst |-> Join(NewDir(file_path, output_dir), file_name),
                 name |-> file_name]]

(***************************************************************************)
(* Program constants.                                                      *)
(***************************************************************************)
\* ThreadPoolExecutor(max_workers=4)
MaxWorkers == 4

\* self.video_exts
VideoExts ==
  { <<"m", "o", "v">>, <<"a", "v", "i">>, <<"m", "p", "4">>, <<"m", "p", "e", "g">>,
    <<"m", "p", "g">>, <<"r", "3", "d">>, <<"m", "x", "f">>, <<"m", "k", "v">>,
    <<"f", "l", "v">>, <<"w", "e", "b", "m">> }

\* the literal "footage"
Footage == <<"f", "o", "o", "t", "a", "g", "e">>

\* the TCL prefix '[file dirname [value root.name]]' of a rewritten path, kept
\* as one element
RootExpr == <<"[file dirname [value root.name]]">>

(***************************************************************************)
(* The inputs: the nodes of the script, the panel's answers, the disk.    *)
(***************************************************************************)
\* last frame of the long sequence: one frame more than the pool has threads
LongLast == MaxWorkers + 1

\* a node is its knob names, the value of its file knob and its frame range
Node(knobs, path, first, last) ==
  [knobs |-> knobs, file |-> path, first |-> first, last |-> last]

NodeKinds ==
  { \* a node without a file knob (a Blur, a Merge)
    Node({}, <<>>, 0, 0),
    \* a Write node: it has the Render knob
    Node({"file", "Render", "first"}, <<"/", "p", "/", "w", ".", "#", ".", "x">>, 1, 2),
    \* a Read node whose file knob is empty
    Node({"file", "first"}, <<>>, 1, 2),
    \* a movie with a frame range
    Node({"file", "first"}, <<"/", "p", "/", "m", ".", "M", "O", "V">>, 1, 3),
    \* a Read node with first == last whose name still carries a padding token
    Node({"file", "first"}, <<"/", "p", "/", "s", "/", "a", ".", "#", "#", ".", "x">>, 7, 7),
    \* a node with a file knob and no frame range (a ReadGeo, a Camera)
    Node({"file"}, <<"/", "p", "/", "g", ".", "x">>, 0, 0),
    \* a two-frame sequence, printf padding
    Node({"file", "first"}, <<"/", "p", "/", "s", "/", "a", ".", "%", "0", "2", "d", ".", "x">>, 9, 10),
    \* a sequence with more frames than the pool has threads, hash padding
    Node({"file", "first"}, <<"/", "p", "/", "t", "/", "b", ".", "#", ".", "x">>, 1, LongLast),
    \* a frame range on a name without padding token
    Node({"file", "first"}, <<"/", "p", "/", "s", "/", "c", ".", "x">>, 1, 2) }

\* what the user can type into the panel
PanelPaths ==
  { <<>>, <<"/", "o">>, <<"/", "o", "/">>, <<"/", "o", "/", "f", ".", "n", "k">> }

\* os.path.isfile(target_path): the one typed path that names an existing file
IsFile(p) == p = <<"/", "o", "/", "f", ".", "n", "k">>

\* self.has_knob(node, knob)
HasKnob(node, knob) == knob \in node.knobs

VARIABLES
  nodes,        \* all_nodes: the nodes of the script, in nuke.allNodes() order
  file,         \* file[n]: the current value of node n's file knob
  pc,           \* position of the coordinator (the thread running collect)
  target_path,  \* target_path of collect
  rootDir,      \* the directory target_path on disk as the pre-flight leaves it:
                \* "present" (it existed or line 144 created it), "absent",
                \* "unknown" before the pre-flight
  i,            \* index of the node the loop of collect is at (1-based)
  isCancelled,  \* self.task.isCancelled(): the user's cancel signal
  cancelled,    \* self.cancelled
  tasks,        \* tasks of the running copy_sequence_parallel
  t,            \* index of the next task the submit loop takes (1-based)
  pool,         \* the futures of the executor: submitted jobs that are not yet
                \* reaped, in submission order
  attempts,     \* every copy_file call dispatched so far, in dispatch order
  route,        \* route[n]: the branch of collect's loop body node n took
  errors,       \* the nodes for a file of which copy_file has printed [ERROR]
                \* (SourceMissing) or [EXCEPTION] (Failed)
  obsBy,        \* the first poll of isCancelled() that returned True: "loop"
                \* (line 158), "submit" (line 104), "none" so far
  sigAt,        \* the node the loop was at when the cancel signal was set
  saved,        \* nuke.scriptSaveAs has run
  u             \* index of the node the rewrite loop is at (1-based)

vars == <<nodes, file, pc, target_path, rootDir, i, isCancelled, cancelled, tasks, t, pool,
          attempts, route, errors, obsBy, sigAt, saved, u>>

N == Len(nodes)

\* footage_path = os.path.join(target_path, "footage")
FootagePath == Join(target_path, Footage)

(***************************************************************************)
(* copy_file: the copy primitive.                                          *)
(***************************************************************************)
\* as CopyFile, without the try/except: the exception of shutil.copy2 leaves
\* copy_file
CopyFileNoCatch(srcExists, ioError) ==
  IF srcExists
    THEN IF ioError
           THEN [outcome |-> "Failed", exc |-> TRUE]
           ELSE [outcome |-> "Copied", exc |-> FALSE]
    ELSE [outcome |-> "SourceMissing", exc |-> FALSE]

\* The outcome of one call, from what the disk does: srcExists is
\* os.path.exists(src), ioError is shutil.copy2 raising.  outcome is the line
\* printed ([COPY], [ERROR], [EXCEPTION]); exc is TRUE when an exception
\* leaves copy_file.
CopyFile(srcExists, ioError) ==
  IF srcExists
    THEN IF ioError
           THEN [outcome |-> "Failed", exc |-> FALSE]
           ELSE [outcome |-> "Copied", exc |-> FALSE]
    ELSE [outcome |-> "SourceMissing", exc |-> FALSE]

(***************************************************************************)
(* collect: the decisions of the loop body.                                *)
(***************************************************************************)
\* as Classify, with the frame range tested before the extension
ClassifyRangeFirst(node, file_path) ==
  IF ~HasKnob(node, "file") \/ HasKnob(node, "Render") THEN "skip"
  ELSE IF file_path = <<>> THEN "skip"
  ELSE IF HasKnob(node, "first") /\ node.first # node.last THEN "sequence"
  ELSE "single"

\* as Classify, with every node that has a frame range sent to
\* copy_sequence_parallel
ClassifyOneFrameSequence(node, file_path) ==
  IF ~HasKnob(node, "file") \/ HasKnob(node, "Render") THEN "skip"
  ELSE IF file_path = <<>> THEN "skip"
  ELSE IF Ext(file_path) \in VideoExts THEN "single"
  ELSE IF HasKnob(node, "first") THEN "sequence"
  ELSE "single"

\* as Classify, without the test of the Render knob
ClassifyCopiesRender(node, file_path) ==
  IF ~HasKnob(node, "file") THEN "skip"
  ELSE IF file_path = <<>> THEN "skip"
  ELSE IF Ext(file_path) \in VideoExts THEN "single"
  ELSE IF HasKnob(node, "first")
         THEN IF node.first = node.last THEN "single" ELSE "sequence"
  ELSE "single"

\* lines 165-187: "skip", "single" (inline copy_file) or "sequence"
\* (copy_sequence_parallel)
Classify(node, file_path) ==
  IF ~HasKnob(node, "file") \/ HasKnob(node, "Render") THEN "skip"
  ELSE IF file_path = <<>> THEN "skip"
  ELSE IF Ext(file_path) \in VideoExts THEN "single"
  ELSE IF HasKnob(node, "first")
         THEN IF node.first = node.last THEN "single" ELSE "sequence"
  ELSE "single"

\* lines 175, 181, 186: dst of the inline copy
SingleDst(file_path, footage_path) == Join(footage_path, Basename(file_path))

\* as AbortAfterLoop, with the test of self.cancelled left out
AbortNever(c) == FALSE

\* line 189: the test that ends collect before the save and the rewrite
AbortAfterLoop(c) == c

\* as BatchDrained, without concurrent.futures.wait and with
\* executor.shutdown(wait=False): the coordinator goes on at once
BatchDrainedNoWait(jobs) == TRUE

\* the with block of lines 101-110 is left only when concurrent.futures.wait
\* has returned and the executor has shut down: every submitted job is done
BatchDrained(jobs) == \A k \in 1..Len(jobs) : jobs[k].status = "done"

\* update_node_path, lines 119-125: new_path
NewPath(node, file_path) ==
  LET basename == Basename(file_path)
  IN IF HasKnob(node, "first") /\ node.first # node.last
        /\ Ext(file_path) \notin VideoExts
       THEN RootExpr \o <<"/">> \o Footage \o <<"/">>
              \o Basename(Dirname(file_path)) \o <<"/">> \o basename
       ELSE RootExpr \o <<"/">> \o Footage \o <<"/">> \o basename

\* lines 197: the nodes the post-pass rewrites
Rewritten(node) == HasKnob(node, "file") /\ ~HasKnob(node, "Render")

(***************************************************************************)
(* Initial states.                                                         *)
(***************************************************************************)
InitRun(ns) ==
  /\ nodes = ns
  /\ file = [n \in 1..Len(ns) |-> ns[n].file]
  /\ target_path = <<>>
  /\ rootDir = "unknown"
  /\ i = 1
  /\ isCancelled = FALSE
  /\ cancelled = FALSE
  /\ tasks = <<>>
  /\ t = 1
  /\ pool = <<>>
  /\ attempts = <<>>
  /\ route = [n \in 1..Len(ns) |-> "none"]
  /\ errors = {}
  /\ obsBy = "none"
  /\ sigAt = 0
  /\ saved = FALSE
  /\ u = 1

\* FileCollector() followed by collect() on a script of NumRefs nodes.  nodes
\* is the list nuke.allNodes() returns at line 155, that is after
\* convert_gizmo_to_group, which copies none of the files
Init ==
  \E ns \in [1..NumRefs -> NodeKinds] :
    /\ InitRun(ns)
    /\ pc = "panel"

(***************************************************************************)
(* collect, lines 133-150: the panel and the pre-flight.                   *)
(***************************************************************************)
ShowPanel ==
  /\ pc = "panel"
  /\ \E result \in {0, 1}, path \in PanelPaths :
       IF result # 1 \/ path = <<>>
         THEN pc' = "no_target" /\ UNCHANGED target_path
         ELSE pc' = "preflight" /\ target_path' = path
  /\ UNCHANGED <<nodes, file, rootDir, i, isCancelled, cancelled, tasks, t, pool,
                 attempts, route, errors, obsBy, sigAt, saved, u>>

\* as Preflight, without the return of line 147: collect goes on when the
\* user declines to create the directory
PreflightNoReturn ==
  /\ pc = "preflight"
  /\ \E exists \in (IF IsFile(target_path) THEN {TRUE} ELSE BOOLEAN),
        ask \in BOOLEAN, mkRoot \in BOOLEAN, mkFootage \in BOOLEAN :
       LET tp == IF IsFile(target_path) THEN Dirname(target_path) ELSE target_path
       IN /\ target_path' = RStrip(tp, "/") \o <<"/">>
          /\ rootDir' = IF exists \/ (ask /\ mkRoot) THEN "present" ELSE "absent"
          /\ pc' = IF ~exists /\ ask /\ ~mkRoot THEN "raised"
                   ELSE IF ~mkFootage THEN "raised"
                   ELSE "loop"
  /\ UNCHANGED <<nodes, file, i, isCancelled, cancelled, tasks, t, pool, attempts,
                 route, errors, obsBy, sigAt, saved, u>>

\* exists is os.path.exists(target_path), ask the answer to nuke.ask, mkRoot
\* and mkFootage whether os.makedirs of line 144 and of line 150 succeed (it
\* raises otherwise)
Preflight ==
  /\ pc = "preflight"
  /\ \E exists \in (IF IsFile(target_path) THEN {TRUE} ELSE BOOLEAN),
        ask \in BOOLEAN, mkRoot \in BOOLEAN, mkFootage \in BOOLEAN :
       LET tp == IF IsFile(target_path) THEN Dirname(target_path) ELSE target_path
       IN /\ target_path' = RStrip(tp, "/") \o <<"/">>
          /\ rootDir' = IF exists \/ (ask /\ mkRoot) THEN "present" ELSE "absent"
          /\ pc' = IF ~exists /\ ~ask THEN "no_dir"
                   ELSE IF ~exists /\ ~mkRoot THEN "raised"
                   ELSE IF ~mkFootage THEN "raised"
                   ELSE "loop"
  /\ UNCHANGED <<nodes, file, i, isCancelled, cancelled, tasks, t, pool, attempts,
                 route, errors, obsBy, sigAt, saved, u>>

(***************************************************************************)
(* collect, lines 157-187: the loop over all_nodes.                        *)
(***************************************************************************)
\* as LoopCancel, with the break and without self.cancelled = True
LoopCancelNoFlag ==
  /\ pc = "loop" /\ i <= N
  /\ isCancelled
  /\ obsBy' = IF obsBy = "none" THEN "loop" ELSE obsBy
  /\ pc' = "afterloop"
  /\ UNCHANGED <<nodes, file, target_path, rootDir, i, isCancelled, cancelled, tasks, t, pool,
                 attempts, route, errors, sigAt, saved, u>>

\* lines 158-160: the poll at the head of the loop sees the signal
LoopCancel ==
  /\ pc = "loop" /\ i <= N
  /\ isCancelled
  /\ cancelled' = TRUE
  /\ obsBy' = IF obsBy = "none" THEN "loop" ELSE obsBy
  /\ pc' = "afterloop"
  /\ UNCHANGED <<nodes, file, target_path, rootDir, i, isCancelled, tasks, t, pool, attempts,
                 route, errors, sigAt, saved, u>>

\* the loop has gone through every node
LoopExit ==
  /\ pc = "loop" /\ i > N
  /\ pc' = "afterloop"
  /\ UNCHANGED <<nodes, file, target_path, rootDir, i, isCancelled, cancelled, tasks, t, pool,
                 attempts, route, errors, obsBy, sigAt, saved, u>>

\* lines 165-170: continue
SkipNode ==
  /\ pc = "loop" /\ i <= N
  /\ ~isCancelled
  /\ Classify(nodes[i], file[i]) = "skip"
  /\ route' = [route EXCEPT ![i] = "skip"]
  /\ i' = i + 1
  /\ UNCHANGED <<nodes, file, pc, target_path, rootDir, isCancelled, cancelled, tasks, t, pool,
                 attempts, errors, obsBy, sigAt, saved, u>>

\* lines 174-176, 180-182, 185-187: the coordinator calls copy_file itself
StartInline ==
  /\ pc = "loop" /\ i <= N
  /\ ~isCancelled
  /\ Classify(nodes[i], file[i]) = "single"
  /\ route' = [route EXCEPT ![i] = "single"]
  /\ attempts' = Append(attempts, [ref |-> i, src |-> file[i],
                                   dst |-> SingleDst(file[i], FootagePath),
                                   via |-> "inline"])
  /\ pc' = "inline"
  /\ UNCHANGED <<nodes, file, target_path, rootDir, i, isCancelled, cancelled, tasks, t, pool,
                 errors, obsBy, sigAt, saved, u>>

\* the inline copy_file returns (or, were an exception to leave it, collect
\* ends with that exception)
FinishInline ==
  /\ pc = "inline"
  /\ \E srcExists \in BOOLEAN, ioError \in BOOLEAN :
       LET r == CopyFile(srcExists, ioError)
       IN /\ errors' = IF r.outcome = "Copied" THEN errors
                        ELSE errors \cup {i}
          /\ IF r.exc
               THEN pc' = "raised" /\ UNCHANGED i
               ELSE pc' = "loop" /\ i' = i + 1
  /\ UNCHANGED <<nodes, file, target_path, rootDir, isCancelled, cancelled, tasks, t, pool,
                 attempts, route, obsBy, sigAt, saved, u>>

\* as SequenceNoPadding, the missing token raised out of copy_sequence_parallel
\* instead of returned from
SequenceNoPaddingRaises ==
  /\ pc = "loop" /\ i <= N
  /\ ~isCancelled
  /\ Classify(nodes[i], file[i]) = "sequence"
  /\ SearchPos(Basename(file[i])) = 0
  /\ route' = [route EXCEPT ![i] = "sequence"]
  /\ pc' = "raised"
  /\ UNCHANGED <<nodes, file, target_path, rootDir, i, isCancelled, cancelled, tasks, t, pool,
                 attempts, errors, obsBy, sigAt, saved, u>>

\* line 184 and lines 69-82: copy_sequence_parallel finds no padding token and
\* returns
SequenceNoPadding ==
  /\ pc = "loop" /\ i <= N
  /\ ~isCancelled
  /\ Classify(nodes[i], file[i]) = "sequence"
  /\ SearchPos(Basename(file[i])) = 0
  /\ route' = [route EXCEPT ![i] = "sequence"]
  /\ i' = i + 1
  /\ UNCHANGED <<nodes, file, pc, target_path, rootDir, isCancelled, cancelled, tasks, t, pool,
                 attempts, errors, obsBy, sigAt, saved, u>>

\* line 184 and lines 69-102: copy_sequence_parallel builds tasks and opens the
\* executor.  os.makedirs(new_dir, exist_ok=True) of line 73 is taken to
\* succeed: new_dir lies in footage_path, which line 150 has just created
StartSequence ==
  /\ pc = "loop" /\ i <= N
  /\ ~isCancelled
  /\ Classify(nodes[i], file[i]) = "sequence"
  /\ SearchPos(Basename(file[i])) # 0
  /\ route' = [route EXCEPT ![i] = "sequence"]
  /\ tasks' = BuildTasks(file[i], FootagePath, nodes[i].first, nodes[i].last)
  /\ t' = 1
  /\ pc' = "submit"
  /\ UNCHANGED <<nodes, file, target_path, rootDir, i, isCancelled, cancelled, pool, attempts,
                 errors, obsBy, sigAt, saved, u>>

(***************************************************************************)
(* copy_sequence_parallel, lines 101-110: submission, the pool, the wait.  *)
(***************************************************************************)
\* as SubmitCancel, without the break: the flag is set and the job is submitted
SubmitCancelNoBreak ==
  /\ pc = "submit" /\ t <= Len(tasks)
  /\ isCancelled
  /\ cancelled' = TRUE
  /\ obsBy' = IF obsBy = "none" THEN "submit" ELSE obsBy
  /\ pool' = Append(pool, [ref |-> i, task |-> t, status |-> "queued", exc |-> FALSE])
  /\ attempts' = Append(attempts, [ref |-> i, src |-> tasks[t].src,
                                   dst |-> tasks[t].dst, via |-> "pool"])
  /\ t' = t + 1
  /\ UNCHANGED <<nodes, file, pc, target_path, rootDir, i, isCancelled, tasks, route, errors,
                 sigAt, saved, u>>

\* lines 104-106: the poll before a submission sees the signal
SubmitCancel ==
  /\ pc = "submit" /\ t <= Len(tasks)
  /\ isCancelled
  /\ cancelled' = TRUE
  /\ obsBy' = IF obsBy = "none" THEN "submit" ELSE obsBy
  /\ pc' = "wait"
  /\ UNCHANGED <<nodes, file, target_path, rootDir, i, isCancelled, tasks, t, pool, attempts,
                 route, errors, sigAt, saved, u>>

\* as SubmitJob, the task handed to the executor twice
SubmitJobTwice ==
  /\ pc = "submit" /\ t <= Len(tasks)
  /\ ~isCancelled
  /\ pool' = pool \o << [ref |-> i, task |-> t, status |-> "queued", exc |-> FALSE],
                        [ref |-> i, task |-> t, status |-> "queued", exc |-> FALSE] >>
  /\ attempts' = attempts \o << [ref |-> i, src |-> tasks[t].src,
                                 dst |-> tasks[t].dst, via |-> "pool"],
                                [ref |-> i, src |-> tasks[t].src,
                                 dst |-> tasks[t].dst, via |-> "pool"] >>
  /\ t' = t + 1
  /\ UNCHANGED <<nodes, file, pc, target_path, rootDir, i, isCancelled, cancelled, tasks,
                 route, errors, obsBy, sigAt, saved, u>>

\* lines 107-109: executor.submit(self.copy_file, src, dst)
SubmitJob ==
  /\ pc = "submit" /\ t <= Len(tasks)
  /\ ~isCancelled
  /\ pool' = Append(pool, [ref |-> i, task |-> t, status |-> "queued", exc |-> FALSE])
  /\ attempts' = Append(attempts, [ref |-> i, src |-> tasks[t].src,
                                   dst |-> tasks[t].dst, via |-> "pool"])
  /\ t' = t + 1
  /\ UNCHANGED <<nodes, file, pc, target_path, rootDir, i, isCancelled, cancelled, tasks,
                 route, errors, obsBy, sigAt, saved, u>>

\* the for loop of line 103 is exhausted
SubmitEnd ==
  /\ pc = "submit" /\ t > Len(tasks)
  /\ pc' = "wait"
  /\ UNCHANGED <<nodes, file, target_path, rootDir, i, isCancelled, cancelled, tasks, t, pool,
                 attempts, route, errors, obsBy, sigAt, saved, u>>

Running(jobs) == {k \in 1..Len(jobs) : jobs[k].status = "running"}

Queued(jobs) == {k \in 1..Len(jobs) : jobs[k].status = "queued"}

\* as StartJob, with a thread for every job: no bound on the running jobs
StartJobNoLimit ==
  /\ Queued(pool) # {}
  /\ LET k == CHOOSE q \in Queued(pool) : \A r \in Queued(pool) : q <= r
     IN pool' = [pool EXCEPT ![k].status = "running"]
  /\ UNCHANGED <<nodes, file, pc, target_path, rootDir, i, isCancelled, cancelled, tasks, t,
                 attempts, route, errors, obsBy, sigAt, saved, u>>

\* as StartJob, of an executor none of whose threads ever takes a job
StartJobNoThread ==
  /\ Queued(pool) # {}
  /\ Cardinality(Running(pool)) < 0
  /\ LET k == CHOOSE q \in Queued(pool) : \A r \in Queued(pool) : q <= r
     IN pool' = [pool EXCEPT ![k].status = "running"]
  /\ UNCHANGED <<nodes, file, pc, target_path, rootDir, i, isCancelled, cancelled, tasks, t,
                 attempts, route, errors, obsBy, sigAt, saved, u>>

\* a free thread of the executor takes the oldest queued job
StartJob ==
  /\ Queued(pool) # {}
  /\ Cardinality(Running(pool)) < MaxWorkers
  /\ LET k == CHOOSE q \in Queued(pool) : \A r \in Queued(pool) : q <= r
     IN pool' = [pool EXCEPT ![k].status = "running"]
  /\ UNCHANGED <<nodes, file, pc, target_path, rootDir, i, isCancelled, cancelled, tasks, t,
                 attempts, route, errors, obsBy, sigAt, saved, u>>

\* copy_file returns in a thread of the executor; an exception that left it
\* would be stored in the future
FinishJob ==
  /\ \E k \in Running(pool), srcExists \in BOOLEAN, ioError \in BOOLEAN :
       LET r == CopyFile(srcExists, ioError)
       IN /\ pool' = [pool EXCEPT ![k].status = "done", ![k].exc = r.exc]
          /\ errors' = IF r.outcome = "Copied" THEN errors
                       ELSE errors \cup {pool[k].ref}
  /\ UNCHANGED <<nodes, file, pc, target_path, rootDir, i, isCancelled, cancelled, tasks, t,
                 attempts, route, obsBy, sigAt, saved, u>>

\* line 110 and the end of the with block: the batch is drained, the futures
\* are dropped and collect goes on with the next node
WaitDone ==
  /\ pc = "wait"
  /\ BatchDrained(pool)
  /\ pool' = SelectSeq(pool, LAMBDA j : j.status # "done")
  /\ tasks' = <<>>
  /\ t' = 1
  /\ i' = i + 1
  /\ pc' = "loop"
  /\ UNCHANGED <<nodes, file, target_path, rootDir, isCancelled, cancelled, attempts, route,
                 errors, obsBy, sigAt, saved, u>>

(***************************************************************************)
(* collect, lines 189-201: the end of the run.                             *)
(***************************************************************************)
\* lines 189-191
CancelReturn ==
  /\ pc = "afterloop"
  /\ AbortAfterLoop(cancelled)
  /\ pc' = "cancel_msg"
  /\ UNCHANGED <<nodes, file, target_path, rootDir, i, isCancelled, cancelled, tasks, t, pool,
                 attempts, route, errors, obsBy, sigAt, saved, u>>

\* lines 193-194
SaveScript ==
  /\ pc = "afterloop"
  /\ ~AbortAfterLoop(cancelled)
  /\ saved' = TRUE
  /\ u' = 1
  /\ pc' = "rewrite"
  /\ UNCHANGED <<nodes, file, target_path, rootDir, i, isCancelled, cancelled, tasks, t, pool,
                 attempts, route, errors, obsBy, sigAt>>

\* lines 196-198: one iteration that calls update_node_path
RewriteNode ==
  /\ pc = "rewrite" /\ u <= N
  /\ Rewritten(nodes[u])
  /\ file' = [file EXCEPT ![u] = NewPath(nodes[u], file[u])]
  /\ u' = u + 1
  /\ UNCHANGED <<nodes, pc, target_path, rootDir, i, isCancelled, cancelled, tasks, t, pool,
                 attempts, route, errors, obsBy, sigAt, saved>>

\* lines 196-197: one iteration that leaves the node alone
RewriteSkip ==
  /\ pc = "rewrite" /\ u <= N
  /\ ~Rewritten(nodes[u])
  /\ u' = u + 1
  /\ UNCHANGED <<nodes, file, pc, target_path, rootDir, i, isCancelled, cancelled, tasks, t,
                 pool, attempts, route, errors, obsBy, sigAt, saved>>

\* lines 200-201
Finish ==
  /\ pc = "rewrite" /\ u > N
  /\ pc' = "done"
  /\ UNCHANGED <<nodes, file, target_path, rootDir, i, isCancelled, cancelled, tasks, t, pool,
                 attempts, route, errors, obsBy, sigAt, saved, u>>

(***************************************************************************)
(* The user.                                                               *)
(***************************************************************************)
Ended == pc \in {"no_target", "no_dir", "raised", "cancel_msg", "done"}

\* the node whose iteration is the next to begin
NextToBegin ==
  IF pc \in {"panel", "preflight", "loop"} THEN i
  ELSE IF pc \in {"inline", "submit", "wait"} THEN i + 1
  ELSE N + 1

\* the user presses Cancel in the progress bar; the signal is never cleared
SetCancel ==
  /\ ~Ended
  /\ ~isCancelled
  /\ isCancelled' = TRUE
  /\ sigAt' = NextToBegin
  /\ UNCHANGED <<nodes, file, pc, target_path, rootDir, i, cancelled, tasks, t, pool, attempts,
                 route, errors, obsBy, saved, u>>

Next ==
  \/ SetCancel
  \/ ShowPanel \/ Preflight
  \/ LoopCancel \/ LoopExit \/ SkipNode
  \/ StartInline \/ FinishInline
  \/ SequenceNoPadding \/ StartSequence
  \/ SubmitCancel \/ SubmitJob \/ SubmitEnd
  \/ StartJob \/ FinishJob \/ WaitDone
  \/ CancelReturn \/ SaveScript \/ RewriteNode \/ RewriteSkip \/ Finish

Spec == Init /\ [][Next]_vars

\* Spec with the scheduling of the code.  No thread stalls while the program
\* has a step to take: every statement of collect returns (the panel and the
\* question are answered, the knobs and the script are written), a free thread
\* of the executor takes a queued job, and a copy_file that was started
\* returns.  Nothing is asked of the user: Cancel can be pressed only while
\* collect or a thread of the executor has a step of its own to take.
SpecFair ==
  /\ Spec
  /\ WF_vars(Next)
  /\ WF_vars(StartJob)
  /\ WF_vars(FinishJob)

(***************************************************************************)
(* copy_sequence_parallel called on its own: every basename of at most    *)
(* MaxLen characters over the characters the padding expressions read,    *)
(* every frame range first <= last over small and two-digit frames.        *)
(***************************************************************************)
TemplateChars == {"%", "0", "2", "d", "#"}

Templates == UNION { [1..n -> TemplateChars] : n \in 0..MaxLen }

FrameValues == ((0 - 1)..1) \cup ((MaxFrame - 2)..MaxFrame)

\* directory of the enumerated sequences
SeqDir == <<"/", "p", "/", "s", "/">>

ExpandInit ==
  \E tpl \in Templates, first \in FrameValues, last \in FrameValues :
    /\ first <= last
    /\ InitRun(<<Node({"file", "first"}, SeqDir \o tpl, first, last)>>)
    /\ pc = "call"

\* copy_sequence_parallel(file_path, footage_path, first, last) up to line 99
CallExpand ==
  /\ pc = "call"
  /\ tasks' = BuildTasks(file[1], <<"/", "o", "/">> \o Footage, nodes[1].first, nodes[1].last)
  /\ pc' = "expanded"
  /\ UNCHANGED <<nodes, file, target_path, rootDir, i, isCancelled, cancelled, t, pool, attempts,
                 route, errors, obsBy, sigAt, saved, u>>

NextExpand == CallExpand

SpecExpand == ExpandInit /\ [][NextExpand]_vars

(***************************************************************************)
(* Vocabulary of the properties.                                           *)
(***************************************************************************)
\* the copy_file calls dispatched for node r
AttemptsOf(r) == SelectSeq(attempts, LAMBDA a : a.ref = r)

\* the submitted jobs that have not completed
Unfinished == {k \in 1..Len(pool) : pool[k].status # "done"}

\* the number of copy_file calls executing: in the pool's threads and inline
Executing == Cardinality(Running(pool)) + (IF pc = "inline" THEN 1 ELSE 0)

\* a reference with no path set or marked render-only
IsSkipped(node) ==
  \/ "file" \notin node.knobs
  \/ node.file = <<>>
  \/ "Render" \in node.knobs

\* the path ends in a dot followed by a video-container extension, in any case
IsVideo(path) ==
  \E e \in VideoExts :
    /\ Len(path) > Len(e)
    /\ path[Len(path) - Len(e)] = "."
    /\ LowerStr(SubSeq(path, Len(path) - Len(e) + 1, Len(path))) = e

\* the reference exposes a frame range with first # last
HasRange(node) == "first" \in node.knobs /\ node.first # node.last

\* the class the specification gives a non-skipped reference
SpecClass(node) ==
  IF IsVideo(node.file) THEN "single"
  ELSE IF HasRange(node) THEN "sequence"
  ELSE "single"

\* the number of copy jobs the specification gives a reference
ExpectedJobs(node) ==
  IF IsSkipped(node) THEN 0
  ELSE IF SpecClass(node) = "single" THEN 1
  ELSE IF SearchPos(Basename(node.file)) = 0 THEN 0
  ELSE node.last - node.first + 1

\* every job of node r has been dispatched
FullyDispatched(r) == Len(AttemptsOf(r)) = ExpectedJobs(nodes[r])

\* the nodes of the model's script, by name
LongSeqNode ==
  Node({"file", "first"}, <<"/", "p", "/", "t", "/", "b", ".", "#", ".", "x">>, 1, LongLast)

ShortSeqNode ==
  Node({"file", "first"},
       <<"/", "p", "/", "s", "/", "a", ".", "%", "0", "2", "d", ".", "x">>, 9, 10)

MovieNode == Node({"file", "first"}, <<"/", "p", "/", "m", ".", "M", "O", "V">>, 1, 3)

OneFrameNode ==
  Node({"file", "first"}, <<"/", "p", "/", "s", "/", "a", ".", "#", "#", ".", "x">>, 7, 7)

NoRangeNode == Node({"file"}, <<"/", "p", "/", "g", ".", "x">>, 0, 0)

EmptyPathNode == Node({"file", "first"}, <<>>, 1, 2)

WriteNode ==
  Node({"file", "Render", "first"}, <<"/", "p", "/", "w", ".", "#", ".", "x">>, 1, 2)

(***************************************************************************)
(* C1.  Cancellation before reference K.                                   *)
(***************************************************************************)
\* C1 as stated: when the cancel signal is set before reference K begins (K
\* is sigAt; the signal is never cleared), no copy job of reference K or of a
\* later one is ever dispatched, and a run that got past the pre-flight ends
\* with cancelled = TRUE, every job of the references before K dispatched and
\* completed.
C1_CancelBeforeK ==
  \A K \in 1..N :
    sigAt = K =>
      /\ \A k \in 1..Len(attempts) : attempts[k].ref < K
      /\ pc \in {"cancel_msg", "done"} =>
           /\ pc = "cancel_msg" /\ cancelled
           /\ \A r \in 1..(K - 1) : FullyDispatched(r)
           /\ Unfinished = {}

\* C1 amended: the same, for a signal that the poll at the head of the loop
\* is the first to see (line 158, at reference K).  A signal set while the
\* batch of reference K-1 is still being submitted is seen by the poll of
\* line 104, and the frames of K-1 not yet submitted are never copied.
C1_CancelSeenAtLoopHead ==
  \A K \in 1..N :
    sigAt = K =>
      /\ \A k \in 1..Len(attempts) : attempts[k].ref < K
      /\ pc \in {"cancel_msg", "done"} =>
           /\ pc = "cancel_msg" /\ cancelled
           /\ obsBy = "loop" => \A r \in 1..(K - 1) : FullyDispatched(r)
           /\ Unfinished = {}

\* the signal is set once the long sequence, reference 1, is through; the run
\* ends cancelled with every frame of reference 1 copied and nothing of
\* reference 2
C1_Witness ==
  /\ pc = "cancel_msg" /\ cancelled
  /\ sigAt = 2 /\ obsBy = "loop"
  /\ nodes[1] = LongSeqNode /\ nodes[2] = ShortSeqNode
  /\ Len(AttemptsOf(1)) = LongLast
  /\ AttemptsOf(2) = <<>>

(***************************************************************************)
(* C2.  Nothing new is dispatched once a poll has seen the signal.         *)
(***************************************************************************)
\* C2: from the state in which a poll of isCancelled() (line 158 or line 104)
\* has returned True, no step dispatches a copy job, inline or to the pool; no
\* submitted job that has not completed is dropped from the pool; and when the
\* run ends, every submitted job has completed and cancelled is TRUE.
C2_NoDispatchOnceSeen ==
  [][ obsBy # "none" =>
        /\ attempts' = attempts
        /\ \A k \in Unfinished :
             \E m \in 1..Len(pool') :
               pool'[m].ref = pool[k].ref /\ pool'[m].task = pool[k].task
        /\ Ended' => (cancelled' /\ Unfinished' = {}) ]_vars

\* the poll before the third submission of the long sequence has seen the
\* signal while a submitted frame is still queued and another is running: the
\* coordinator waits for both
C2_Witness ==
  /\ pc = "wait" /\ cancelled
  /\ obsBy = "submit"
  /\ nodes[1] = LongSeqNode
  /\ Len(attempts) = 2
  /\ Queued(pool) # {} /\ Running(pool) # {}

(***************************************************************************)
(* C3.  A frame that cannot be copied stops nothing.                       *)
(***************************************************************************)
\* C3: a SourceMissing or Failed outcome of copy_file raises nothing past
\* copy_file (no future holds an exception, collect is never ended by an
\* exception of a copy); when the batch of a node with such an outcome is over
\* and no poll stopped its submission, every frame of it was dispatched; and
\* a run that ends not cancelled has dispatched every job of the nodes after it.
C3_FailureIsolated ==
  /\ \A k \in 1..Len(pool) : ~pool[k].exc
  /\ pc = "raised" => attempts = <<>>
  /\ \A r \in errors :
       /\ (i > r /\ ~(obsBy = "submit" /\ i = r + 1)) => FullyDispatched(r)
       /\ pc = "done" => \A q \in (r + 1)..N : FullyDispatched(q)

\* a frame of the long sequence, reference 1, was missing or failed to copy;
\* all its frames were dispatched, the sequence after it was copied and the
\* run is done
C3_Witness ==
  /\ pc = "done"
  /\ nodes[1] = LongSeqNode /\ nodes[2] = ShortSeqNode
  /\ errors = {1}
  /\ Len(AttemptsOf(1)) = LongLast
  /\ Len(AttemptsOf(2)) = 2

(***************************************************************************)
(* C4.  References are processed one after the other.                      *)
(***************************************************************************)
\* C4: in every state, a submitted job that has not completed belongs to the
\* node the loop is at, whose batch the coordinator is submitting or awaiting;
\* so no job of a later node is dispatched, inline or to the pool, while a
\* job of an earlier node is pending or running, and the jobs are dispatched
\* in the order of the nodes.
C4_SequentialReferences ==
  /\ \A k \in Unfinished : pool[k].ref = i /\ pc \in {"submit", "wait"}
  /\ \A k \in 1..Len(attempts), m \in 1..Len(attempts) :
       k < m => attempts[k].ref <= attempts[m].ref

\* the first frame of reference 2 has been submitted after the whole batch of
\* reference 1, the long sequence, was drained
C4_Witness ==
  /\ pc = "submit" /\ i = 2
  /\ nodes[1] = LongSeqNode /\ nodes[2] = ShortSeqNode
  /\ Len(AttemptsOf(1)) = LongLast
  /\ Len(AttemptsOf(2)) = 1
  /\ Unfinished = {Len(pool)} /\ pool[Len(pool)].ref = 2

(***************************************************************************)
(* C5.  At most four copies run at a time.                                 *)
(***************************************************************************)
\* C5: in every state at most 4 copy_file calls are executing.
C5_AtMostFourExecuting == Executing <= 4

\* four frames of the long sequence are being copied and the fifth waits for a
\* free thread
C5_Witness ==
  /\ Cardinality(Running(pool)) = 4
  /\ Queued(pool) # {}

(***************************************************************************)
(* C6.  Classification of a reference.                                     *)
(***************************************************************************)
\* C6: every non-skipped node the loop has gone past took the branch of its
\* class: the inline copy when its extension is a video container's, whatever
\* its frame range; else copy_sequence_parallel when it has a frame range with
\* first # last; else (first = last, or no frame range) the inline copy.
C6_Classification ==
  \A r \in 1..N :
    /\ (r < i /\ ~IsSkipped(nodes[r])) => route[r] = SpecClass(nodes[r])
    /\ route[r] \in {"single", "sequence"} =>
         ~IsSkipped(nodes[r]) /\ route[r] = SpecClass(nodes[r])

\* a movie with frames 1-3 was copied inline and the sequence after it went
\* through copy_sequence_parallel
C6_Witness ==
  /\ pc = "done"
  /\ nodes[1] = MovieNode /\ nodes[2] = ShortSeqNode
  /\ route[1] = "single" /\ route[2] = "sequence"
  /\ Len(AttemptsOf(1)) = 1 /\ AttemptsOf(1)[1].via = "inline"

(***************************************************************************)
(* C7.  The single-file path.                                              *)
(***************************************************************************)
\* the destination outputRoot/footage/<basename of path>
FootageDst(path) == target_path \o Footage \o <<"/">> \o Basename(path)

\* C7: for a non-skipped, non-video node with first = last or without a frame
\* range, no job is ever submitted to the pool, every copy dispatched for it
\* is inline with destination outputRoot/footage/<basename of its path>, and
\* once the loop has gone past it exactly one copy was dispatched for it.
C7_SingleFileInline ==
  \A r \in 1..N :
    (~IsSkipped(nodes[r]) /\ ~IsVideo(nodes[r].file) /\ ~HasRange(nodes[r])) =>
      /\ \A k \in 1..Len(pool) : pool[k].ref # r
      /\ \A k \in 1..Len(AttemptsOf(r)) :
           /\ AttemptsOf(r)[k].via = "inline"
           /\ AttemptsOf(r)[k].dst = FootageDst(nodes[r].file)
      /\ Len(AttemptsOf(r)) <= 1
      /\ r < i => Len(AttemptsOf(r)) = 1

\* a Read node with first = last = 7 and a node without a frame range were each
\* copied once, inline, and the run is done
C7_Witness ==
  /\ pc = "done"
  /\ nodes[1] = OneFrameNode /\ nodes[2] = NoRangeNode
  /\ Len(attempts) = 2
  /\ attempts[1].via = "inline" /\ attempts[2].via = "inline"
  /\ attempts[1].dst = <<"/", "o", "/">> \o Footage \o <<"/", "a", ".", "#", "#", ".", "x">>
  /\ attempts[2].dst = <<"/", "o", "/">> \o Footage \o <<"/", "g", ".", "x">>

(***************************************************************************)
(* C8.  No rewrite after a cancellation.                                   *)
(***************************************************************************)
\* C8: whenever self.cancelled is TRUE the script has not been saved and every
\* node's file knob holds the value it had when collect started.
C8_NoRewriteWhenCancelled ==
  cancelled => (~saved /\ \A n \in 1..N : file[n] = nodes[n].file)

\* the signal was seen by the poll before a submission (line 104) in the last
\* node's batch; collect has returned with the "cancelled" message, files
\* copied and no path rewritten
C8_Witness ==
  /\ pc = "cancel_msg" /\ cancelled
  /\ obsBy = "submit" /\ i = N + 1
  /\ attempts # <<>>
  /\ \A n \in 1..N : Rewritten(nodes[n]) /\ file[n] = nodes[n].file

(***************************************************************************)
(* C9.  Skipped references.                                                *)
(***************************************************************************)
\* C9: for a node with no path set (no file knob, or an empty one) or with a
\* Render knob, no copy is ever dispatched and no error outcome is recorded;
\* the loop goes past it by the continue of lines 166/170, and a run that ends
\* not cancelled has dispatched every job of the nodes after it.
C9_SkippedReferences ==
  \A r \in 1..N :
    IsSkipped(nodes[r]) =>
      /\ AttemptsOf(r) = <<>>
      /\ r \notin errors
      /\ r < i => route[r] = "skip"
      /\ pc = "done" => \A q \in (r + 1)..N : FullyDispatched(q)

\* a Write node was skipped, the sequence after it was copied and the run is
\* done
C9_Witness ==
  /\ pc = "done"
  /\ nodes[1] = WriteNode /\ nodes[2] = ShortSeqNode
  /\ route[1] = "skip"
  /\ AttemptsOf(1) = <<>>
  /\ Len(AttemptsOf(2)) = 2

(***************************************************************************)
(* C10.  The expansion of a frame range.                                   *)
(***************************************************************************)
\* the decimal frame number, zeros added up to width characters (after the
\* sign of a negative frame)
Padded(frame, width) ==
  IF frame >= 0
    THEN Zeros(IF width > Len(NatStr(frame)) THEN width - Len(NatStr(frame)) ELSE 0)
           \o NatStr(frame)
    ELSE <<"-">>
           \o Zeros(IF width > Len(NatStr(0 - frame)) + 1
                      THEN width - Len(NatStr(0 - frame)) - 1 ELSE 0)
           \o NatStr(0 - frame)

\* C10: for first <= last and a basename in which a padding token is found,
\* tasks holds exactly last - first + 1 jobs; the k-th is the job of frame
\* first + k - 1 (increasing frame order): its file name is the basename up to
\* the token, then the frame number zero-padded to the parsed width; and the
\* file names are pairwise distinct.
C10_Expansion ==
  pc = "expanded" =>
    LET base == Basename(file[1])
        p == SearchPos(base)
        first == nodes[1].first
        last == nodes[1].last
    IN p # 0 =>
         /\ Len(tasks) = last - first + 1
         /\ \A k \in 1..Len(tasks) :
              LET z == Padded(first + k - 1, PadLen(PadToken(base)))
              IN /\ Len(tasks[k].name) >= p - 1 + Len(z)
                 /\ SubSeq(tasks[k].name, 1, p - 1) = SubSeq(base, 1, p - 1)
                 /\ SubSeq(tasks[k].name, p, p - 1 + Len(z)) = z
         /\ \A k \in 1..Len(tasks), m \in 1..Len(tasks) :
              k # m => tasks[k].name # tasks[m].name

\* the three frames MaxFrame - 2 .. MaxFrame of the basename %02d expand to
\* three two-digit file names (09, 10, 11 for MaxFrame = 11)
C10_Witness ==
  /\ pc = "expanded"
  /\ nodes[1].first = MaxFrame - 2 /\ nodes[1].last = MaxFrame
  /\ Basename(file[1]) = <<"%", "0", "2", "d">>
  /\ Len(tasks) = 3
  /\ tasks[1].name = Padded(MaxFrame - 2, 2)
  /\ tasks[3].name = Padded(MaxFrame, 2)

(***************************************************************************)
(* C11.  The padding tokens that are recognized.                           *)
(***************************************************************************)
\* s holds, from position p on, a percent sign, n digits and the letter d
PercentTokenAt(s, p, n) ==
  /\ p + n + 1 <= Len(s)
  /\ s[p] = "%"
  /\ \A j \in 1..n : IsDigit(s[p + j])
  /\ s[p + n + 1] = "d"

\* s holds, from position p on, a maximal run of exactly k hash characters
HashTokenAt(s, p, k) ==
  /\ k >= 1 /\ p + k - 1 <= Len(s)
  /\ \A j \in 0..(k - 1) : s[p + j] = "#"
  /\ (p + k <= Len(s) => s[p + k] # "#")

\* the three families of the specification, as <<length, width>> of the token
\* at position p: %0Nd with N of one digit or more, %d, a run of hashes
ThreeFamiliesAt(s, p) ==
  { <<n + 2, ParseInt(SubSeq(s, p + 2, p + n))>> :
      n \in {m \in 2..Len(s) : PercentTokenAt(s, p, m) /\ s[p + 1] = "0"} }
  \cup { <<2, 1>> : n \in {m \in {0} : PercentTokenAt(s, p, m)} }
  \cup { <<k, k>> : k \in {m \in 1..Len(s) : HashTokenAt(s, p, m)} }

\* the tokens the two regular expressions accept: a percent sign, any digits
\* and d, of width the value of the digits (1 without digits); a run of hashes
AcceptedAt(s, p) ==
  { <<n + 2, IF n = 0 THEN 1 ELSE ParseInt(SubSeq(s, p + 1, p + n))>> :
      n \in {m \in 0..Len(s) : PercentTokenAt(s, p, m)} }
  \cup { <<k, k>> : k \in {m \in 1..Len(s) : HashTokenAt(s, p, m)} }

\* the parse of the basename agrees with the token shapes tokensAt: the token
\* found is the leftmost of these shapes, with its width, and no job is built
\* when the basename holds none
ParseAgrees(tokensAt(_, _)) ==
  pc = "expanded" =>
    LET base == Basename(file[1])
        hits == {q \in 1..Len(base) : tokensAt(base, q) # {}}
    IN IF hits = {}
         THEN SearchPos(base) = 0 /\ tasks = <<>>
         ELSE LET q == CHOOSE x \in hits : \A y \in hits : x <= y
              IN /\ SearchPos(base) = q
                 /\ tasks # <<>>
                 /\ tokensAt(base, q) = {<<Len(PadToken(base)), PadLen(PadToken(base))>>}

\* C11 as stated: the parse recognizes exactly %0Nd (width N), %d (width 1)
\* and a run of k hashes (width k); a basename without any of them gives no
\* job, and no other shape is taken for padding.
C11_ThreeFamilies == ParseAgrees(ThreeFamiliesAt)

\* C11 amended: the parse recognizes exactly a percent sign followed by any
\* number of digits, with or without a leading 0, and d, of width the decimal
\* value of the digits and 1 without digits, and a run of k hashes of width
\* k; a basename without any of them gives no job.
C11_AcceptedTokens == ParseAgrees(AcceptedAt)

\* the basename %2d, none of the three families, is expanded with width 2
C11_Witness ==
  /\ pc = "expanded"
  /\ Basename(file[1]) = <<"%", "2", "d">>
  /\ nodes[1].first = 0
  /\ tasks # <<>>
  /\ tasks[1].name = <<"0", "0">>

(***************************************************************************)
(* C12.  Concurrent jobs write different files.                            *)
(***************************************************************************)
\* the destination of the submitted job pool[k]: the jobs of a node are
\* dispatched in the order of its tasks
JobDst(k) == AttemptsOf(pool[k].ref)[pool[k].task].dst

\* C12: in every state, two different jobs that are submitted and not
\* completed (queued or running) have different destinations; the copies
\* dispatched for one node have pairwise different destinations; and no job
\* of the pool is pending or running while the coordinator copies inline or
\* is at another node.
C12_DistinctDestinations ==
  /\ \A k \in Unfinished, m \in Unfinished : k # m => JobDst(k) # JobDst(m)
  /\ \A r \in 1..N :
       \A k \in 1..Len(AttemptsOf(r)), m \in 1..Len(AttemptsOf(r)) :
         k # m => AttemptsOf(r)[k].dst # AttemptsOf(r)[m].dst
  /\ \A k \in Unfinished : pool[k].ref = i /\ pc # "inline"

\* four frames of the long sequence are being copied at once, to four files
C12_Witness ==
  /\ i = 1 /\ nodes[1] = LongSeqNode
  /\ Cardinality(Running(pool)) = 4
  /\ Cardinality({JobDst(k) : k \in Running(pool)}) = 4

(***************************************************************************)
(* C13.  Nothing is copied before the pre-flight has succeeded.            *)
(***************************************************************************)
\* no copy dispatched, no job in the pool, the script not saved and every file
\* knob as collect found it
NothingDone ==
  /\ attempts = <<>> /\ pool = <<>>
  /\ ~saved
  /\ \A n \in 1..N : file[n] = nodes[n].file

\* C13: a copy is dispatched only after the pre-flight has found or created
\* the output directory; when the directory does not exist and is not created
\* (the user declines, or os.makedirs raises), collect has ended, by the
\* return of line 147 or by the exception, with no copy dispatched and no
\* file knob changed; and nothing is done in any state before the loop.
C13_PreflightFirst ==
  /\ attempts # <<>> => (rootDir = "present" /\ pc \notin {"panel", "preflight"})
  /\ rootDir = "absent" => (pc \in {"no_dir", "raised"} /\ NothingDone)
  /\ pc \in {"panel", "preflight", "no_target", "no_dir", "raised"} => NothingDone

\* the user declined to create the missing directory: collect has returned
\* without copying the sequences of the script
C13_Witness ==
  /\ pc = "no_dir"
  /\ rootDir = "absent"
  /\ nodes[1] = LongSeqNode /\ nodes[2] = ShortSeqNode
  /\ NothingDone

(***************************************************************************)
(* C14.  The padding width.                                                *)
(***************************************************************************)
\* C14: whenever the parse finds a token in the basename, pad_len is at least 1.
C14_WidthAtLeastOne ==
  pc = "expanded" =>
    (SearchPos(Basename(file[1])) # 0 => PadLen(PadToken(Basename(file[1]))) >= 1)

(***************************************************************************)
(* C15.  One substitution, of the leftmost token.                          *)
(***************************************************************************)
\* the basename with the token span at position p replaced by repl
ReplaceSpan(s, p, len, repl) ==
  SubSeq(s, 1, p - 1) \o repl \o SubSeq(s, p + len, Len(s))

\* C15 as stated: the file name of every frame is the basename with the
\* leftmost token alone replaced, once and as a whole, by the padded frame
\* number; every character outside that span is as in the basename.
C15_LeftmostTokenOnly ==
  pc = "expanded" =>
    LET base == Basename(file[1])
        p == SearchPos(base)
    IN p # 0 =>
         \A k \in 1..Len(tasks) :
           tasks[k].name =
             ReplaceSpan(base, p, Len(PadToken(base)),
                         ZFill(IntStr(nodes[1].first + k - 1), PadLen(PadToken(base))))

(***************************************************************************)
(* C16.  A sequence whose name carries no padding token.                   *)
(***************************************************************************)
\* a frame range with first # last on a name without padding token
NoPaddingNode ==
  Node({"file", "first"}, <<"/", "p", "/", "s", "/", "c", ".", "x">>, 1, 2)

\* the node is classified as a sequence and its basename holds no token
IsNoPaddingSequence(node) ==
  /\ ~IsSkipped(node)
  /\ SpecClass(node) = "sequence"
  /\ SearchPos(Basename(node.file)) = 0

IsOneFramePadded(node) ==
  /\ ~IsSkipped(node) /\ ~IsVideo(node.file)
  /\ "first" \in node.knobs /\ node.first = node.last
  /\ SearchPos(Basename(node.file)) # 0

\* C17 as stated: a node with first = last whose name holds a padding token
\* is copied inline, and the file read and the file written are those of the
\* one task copy_sequence_parallel would build for it, the frame number in
\* the place of the token.
C17_OneFrameAsExpansion ==
  \A r \in 1..N :
    IsOneFramePadded(nodes[r]) =>
      \A k \in 1..Len(AttemptsOf(r)) :
        LET a == AttemptsOf(r)[k]
            one == BuildTasks(nodes[r].file, FootagePath, nodes[r].first, nodes[r].last)
        IN /\ a.via = "inline"
           /\ Len(one) = 1
           /\ a.src = one[1].src
           /\ a.dst = one[1].dst

(***************************************************************************)
(* C18.  Which paths the post-pass rewrites.                               *)
(***************************************************************************)
\* C18 as stated: when collect has returned with cancelled = FALSE after the
\* post-pass, the file knob of a node differs from the value it had when
\* collect started exactly when at least one copy was dispatched for the node.
C18_RewrittenIffAttempted ==
  (pc = "done" /\ ~cancelled) =>
    \A r \in 1..N : (file[r] # nodes[r].file) <=> (AttemptsOf(r) # <<>>)

(***************************************************************************)
(* C19.  Every job once, and all of them before the save.                  *)
(***************************************************************************)
\* the copies the loop of collect dispatches for node r, in order: the one
\* inline copy of a single file, the tasks of a sequence
JobsOf(r) ==
  IF IsSkipped(nodes[r]) THEN <<>>
  ELSE IF SpecClass(nodes[r]) = "single"
    THEN << [src |-> nodes[r].file, dst |-> FootageDst(nodes[r].file)] >>
  ELSE [k \in 1..ExpectedJobs(nodes[r]) |->
          LET job == BuildTasks(nodes[r].file, FootagePath,
                                nodes[r].first, nodes[r].last)[k]
          IN [src |-> job.src, dst |-> job.dst]]

\* C19: in every state the copies dispatched for a node are the first of its
\* jobs, each once and in order (none twice); and from the script save on, in
\* a run that is not cancelled, the copies dispatched for every non-skipped
\* node are all its jobs (one for a single file, last - first + 1 for a
\* sequence with a token), and every one of them has completed.
C19_EveryJobOnceBeforeSave ==
  /\ \A r \in 1..N :
       /\ Len(AttemptsOf(r)) <= Len(JobsOf(r))
       /\ \A k \in 1..Len(AttemptsOf(r)) :
            /\ AttemptsOf(r)[k].src = JobsOf(r)[k].src
            /\ AttemptsOf(r)[k].dst = JobsOf(r)[k].dst
  /\ ((saved \/ pc \in {"rewrite", "done"}) /\ ~cancelled) =>
       /\ \A r \in 1..N : ~IsSkipped(nodes[r]) => Len(AttemptsOf(r)) = Len(JobsOf(r))
       /\ Unfinished = {}
       /\ pc # "inline"

\* the script has just been saved and no path is rewritten yet: the five
\* frames of reference 1 and the two of reference 2 were copied, each once
C19_Witness ==
  /\ pc = "rewrite" /\ u = 1 /\ saved /\ ~cancelled
  /\ nodes[1] = LongSeqNode /\ nodes[2] = ShortSeqNode
  /\ Len(AttemptsOf(1)) = LongLast
  /\ Len(AttemptsOf(2)) = 2
  /\ pool = <<>>

(***************************************************************************)
(* C20.  Termination.                                                      *)
(***************************************************************************)
\* C20: under fair scheduling of the thread of collect and of the threads of
\* the executor, and with every copy_file returning, whenever submitted jobs
\* have not completed they all eventually complete, and collect eventually
\* returns and stays returned with no job left; the user's Cancel may come at
\* any point of the run or never.
C20_Termination ==
  /\ (Unfinished # {}) ~> (Unfinished = {})
  /\ <>[](Ended /\ Unfinished = {})

\* the user pressed Cancel after the last poll of the run: every frame of both
\* sequences was copied and collect returned with "Collect done!"
C20_Witness ==
  /\ pc = "done"
  /\ isCancelled /\ ~cancelled
  /\ nodes[1] = LongSeqNode /\ nodes[2] = ShortSeqNode
  /\ Len(attempts) = LongLast + 2
  /\ Unfinished = {}

====
